---- MODULE Spec2Model ----
(***************************************************************************)
(* Buffer pool manager, LRU-K replacer and page guards of bustub.          *)
(*                                                                         *)
(* The repository carries two versions of buffer_pool_manager.cpp; the     *)
(* variable `variant' says which one was built ("A": the first, lines      *)
(* 112-301 of the file, "B": the second, lines 303-475).                   *)
(*                                                                         *)
(*   SpecR  the replacer used standalone                                   *)
(*   Spec   the buffer pool manager's public operations                    *)
(*   SpecD  Spec with callers that write the bytes of the pages they hold  *)
(*   SpecG  the page guards on top of the buffer pool manager              *)
(***************************************************************************)
EXTENDS Integers, Sequences, FiniteSets, TLC

\* ---- bounds -------------------------------------------------------------
PoolSize == 2      \* pool_size / num_frames given to the constructors
K == 2             \* replacer_k given to the constructors
MaxTime == 5       \* RecordAccess is called while current_timestamp_ < MaxTime
MaxPages == 3      \* AllocatePage is called while next_page_id_ < MaxPages
MaxPin == 2        \* a page is fetched while fewer than MaxPin callers hold it
MaxData == 1       \* page bytes are a value in 0..MaxData
MaxWrap == 2       \* Evict and Remove are called while curr_size_ > -MaxWrap
MaxWritePage == 0  \* callers write the bytes of pages 0..MaxWritePage
MaxGuards == 3     \* guard objects alive at the same time
MaxThreads == 2    \* threads that call the guard factories and use the guards
MaxIssue == 3      \* the guard factories pin a page MaxIssue times at most
MaxChar == 2       \* the characters of trie keys are 1..MaxChar
MaxKeyLen == 2     \* trie keys have MaxKeyLen characters at most
MaxValue == 2      \* trie values are 1..MaxValue
MaxOps == 3        \* Trie::Put and Trie::Remove are called MaxOps times at most
MaxCalls == 3      \* TrieStore::Get, Put and Remove are called MaxCalls times at most

\* ---- program constants --------------------------------------------------
INVALID_PAGE_ID == -1
NoFrame == -1
nullptr == 0       \* the id of no TrieNode
NoValue == 0       \* Trie::Get returns nullptr

Frames == 0 .. (PoolSize - 1)
PageIds == 0 .. (MaxPages - 1)
Data == 0 .. MaxData
GuardIds == 1 .. MaxGuards
Threads == 1 .. MaxThreads
Chars == 1 .. MaxChar
Keys == UNION {[1 .. n -> Chars] : n \in 0 .. MaxKeyLen}
Values == 1 .. MaxValue
\* the keys the TrieStore is called with: full length, same first character
StoreKeys == {k \in Keys : Len(k) = MaxKeyLen /\ k[1] = 1}

VARIABLES
  variant,        \* which buffer_pool_manager.cpp was built
  pages,          \* pages_[f]: page_id_, pin_count_, is_dirty_, data_
  page_table,     \* page_table_: page id -> frame id
  free_list,      \* free_list_
  next_page_id,   \* next_page_id_
  disk,           \* the disk manager's pages
  replacer,       \* the LRUKReplacer
  fault,          \* "none", or why the process stopped
  holders,        \* per page: callers that fetched it and have not unpinned
  unflushed,      \* per page: unpinned dirty since its last WritePage
  evictedData,    \* per page: bytes it had when it was evicted unflushed
  lastWrites,     \* the page ids the last call passed to WritePage, in order
  lastEvict,      \* what the last standalone Evict call did
  guards,         \* the guard objects: kind, page_ (a frame), is_dirty_, latch_
  latch,          \* per frame: holders of the page's reader-writer latch
  pc,             \* per thread: where it is in a guard operation
  pinsIssued,     \* pins the factories have handed to guards
  unpinCalls,     \* UnpinPage calls the guards have made
  droppedEmpty,   \* a guard that owned no page has been dropped
  assignedOver,   \* a guard that owned a page has been move-assigned to
  heap,           \* the TrieNode objects allocated so far: children_, value
  tries,          \* the Trie objects produced so far, each the id of its root_
  lastTrie,       \* what the last Trie::Put / Trie::Remove call did
  store_root,     \* TrieStore::root_, the id of its root node
  root_lock,      \* TrieStore::root_lock_: the thread that holds it, 0 if none
  write_lock,     \* TrieStore::write_lock_: the thread that holds it, 0 if none
  callers,        \* per thread: the TrieStore call it is in and its local root
  done,           \* the Put and Remove calls that have returned
  lastGet,        \* what the last TrieStore::Get that returned did
  contended       \* a writer has waited for write_lock_

bpmVars == <<variant, pages, page_table, free_list, next_page_id, disk>>
ghostVars == <<holders, unflushed, evictedData, lastWrites>>
poolVars == <<variant, pages, page_table, free_list, next_page_id, disk, replacer,
              fault, holders, unflushed, evictedData, lastWrites, lastEvict>>
guardVars == <<guards, latch, pc, pinsIssued, unpinCalls, droppedEmpty, assignedOver>>
trieVars == <<heap, tries, lastTrie>>
storeVars == <<store_root, root_lock, write_lock, callers, done, lastGet, contended>>
libVars == <<trieVars, storeVars>>
restVars == <<guardVars, libVars>>
vars == <<poolVars, guardVars, trieVars, storeVars>>

\* ---- helpers ------------------------------------------------------------
MinOf(S) == CHOOSE x \in S : \A y \in S : x <= y

RemoveAll(s, x) == SelectSeq(s, LAMBDA y : y # x)

DropKey(fn, x) == [y \in (DOMAIN fn) \ {x} |-> fn[y]]

LastK(s) == IF Len(s) <= K THEN s ELSE SubSeq(s, Len(s) - K + 1, Len(s))

\* ---- LRUKNode -----------------------------------------------------------
\* LRUKNode(frame_id, k, timestamp): the node of a frame on its first access
NewNode_Evictable(ts) == [history |-> <<ts>>, is_evictable |-> TRUE, is_lru |-> FALSE]

NewNode(ts) == [history |-> <<ts>>, is_evictable |-> FALSE, is_lru |-> FALSE]

\* LRUKNode(): what node_store_[f] creates for a frame it does not hold
DefaultNode == [history |-> <<>>, is_evictable |-> FALSE, is_lru |-> FALSE]

\* LRUKNode::Access(timestamp): append the timestamp, keep the last K, and
\* report whether the node has just reached K accesses (it is then lru class)
Access(node, ts) ==
  LET h == Append(node.history, ts)
      can_lru == (~node.is_lru) /\ Len(h) >= K
  IN [node |-> [node EXCEPT !.history = LastK(h),
                            !.is_lru = node.is_lru \/ can_lru],
      can_lru |-> can_lru]

\* ---- LRUKReplacer -------------------------------------------------------
\* curr_size_ is a size_t: the model keeps the representative of its value
\* modulo 2^64 that lies nearest 0, so -1 stands for 2^64 - 1.
InitReplacer ==
  [node_store |-> << >>, fifo |-> << >>, lru |-> << >>, lru_map |-> {},
   curr_size |-> 0, current_timestamp |-> 0]

\* node_store_[f], which default-constructs the node when f is not a key
NodeAt(r, f) == IF f \in DOMAIN r.node_store THEN r.node_store[f] ELSE DefaultNode

\* the scan loops of Evict: the first evictable frame of the list, 0 if none
ScanList(list, r) ==
  LET idx == {i \in 1 .. Len(list) : NodeAt(r, list[i]).is_evictable}
  IN IF idx = {} THEN 0 ELSE list[MinOf(idx)]

\* the frame Evict settles on
EvictTarget(r) ==
  LET t == ScanList(r.fifo, r)
  IN IF t = 0 THEN ScanList(r.lru, r) ELSE t

Evict(r) ==
  IF r.curr_size = 0
  THEN [ok |-> FALSE, frame |-> NoFrame, r |-> r]
  ELSE LET target == EvictTarget(r)
           r1 == IF NodeAt(r, target).is_lru
                 THEN [r EXCEPT !.lru = RemoveAll(r.lru, target),
                                !.lru_map = r.lru_map \ {target}]
                 ELSE [r EXCEPT !.fifo = RemoveAll(r.fifo, target)]
       IN [ok |-> TRUE, frame |-> target,
           r |-> [r1 EXCEPT !.node_store = DropKey(r.node_store, target),
                            !.curr_size = r.curr_size - 1]]

\* RecordAccess: hung is TRUE when the call locks latch_ a second time
\* (Evict called with latch_ held) and never returns
RecordAccess(r, f) ==
  IF f \notin DOMAIN r.node_store
  THEN IF r.curr_size = PoolSize
       THEN [hung |-> TRUE, r |-> r]
       ELSE [hung |-> FALSE,
             r |-> [r EXCEPT !.fifo = Append(r.fifo, f),
                             !.node_store = (f :> NewNode(r.current_timestamp)) @@ r.node_store,
                             !.current_timestamp = r.current_timestamp + 1]]
  ELSE LET r1 == IF r.node_store[f].is_lru
                 THEN [r EXCEPT !.lru = Append(RemoveAll(r.lru, f), f),
                                !.lru_map = r.lru_map \cup {f}]
                 ELSE r
           a == Access(r.node_store[f], r.current_timestamp)
           r2 == [r1 EXCEPT !.node_store = (f :> a.node) @@ r.node_store,
                            !.current_timestamp = r.current_timestamp + 1]
       IN [hung |-> FALSE,
           r |-> IF a.can_lru
                 THEN [r2 EXCEPT !.fifo = RemoveAll(r2.fifo, f),
                                 !.lru = Append(r2.lru, f),
                                 !.lru_map = r2.lru_map \cup {f}]
                 ELSE r2]

\* a SetEvictable that leaves the node's is_evictable_ and curr_size_ alone
SetEvictable_Ignored(r, f, set_evictable) == r

SetEvictable(r, f, set_evictable) ==
  LET r0 == [r EXCEPT !.node_store = (f :> NodeAt(r, f)) @@ r.node_store]
  IN IF r0.node_store[f].is_evictable
     THEN IF ~set_evictable
          THEN [r0 EXCEPT !.node_store[f].is_evictable = FALSE,
                          !.curr_size = r0.curr_size - 1]
          ELSE r0
     ELSE IF set_evictable
          THEN [r0 EXCEPT !.node_store[f].is_evictable = TRUE,
                          !.curr_size = r0.curr_size + 1]
          ELSE r0

\* Remove: asserted is FALSE when BUSTUB_ASSERT(is_evictable_) fails
Remove(r, f) ==
  IF f \notin DOMAIN r.node_store
  THEN [asserted |-> TRUE, r |-> r]
  ELSE IF ~r.node_store[f].is_evictable
  THEN [asserted |-> FALSE, r |-> r]
  ELSE LET r1 == IF r.node_store[f].is_lru
                 THEN [r EXCEPT !.lru = RemoveAll(r.lru, f),
                                !.lru_map = r.lru_map \ {f}]
                 ELSE [r EXCEPT !.fifo = RemoveAll(r.fifo, f)]
       IN [asserted |-> TRUE,
           r |-> [r1 EXCEPT !.node_store = DropKey(r.node_store, f),
                            !.curr_size = r.curr_size - 1]]

\* ---- the state after construction ----------------------------------------
\* no Trie::Put / Trie::Remove call yet
NoTrieOp == [op |-> "none", base |-> 0, key |-> << >>, value |-> NoValue,
             before |-> [k \in Keys |-> NoValue]]

\* a thread outside any TrieStore call, and no TrieStore::Get returned yet
NoCall == [pc |-> "idle", op |-> "none", key |-> << >>, value |-> NoValue,
           root |-> nullptr, seen |-> {}]

NoGet == [op |-> "none", key |-> << >>, result |-> NoValue, allowed |-> {}]

\* a guard object that does not exist, and a thread outside any guard operation
NoGuard == [kind |-> "dead", page |-> NoFrame, is_dirty |-> FALSE, locked |-> FALSE]

Idle == [op |-> "idle", frame |-> NoFrame]

NoEvict == [called |-> FALSE, ok |-> FALSE, frame |-> NoFrame, pre |-> InitReplacer]

InitBpm ==
  /\ pages = [f \in Frames |-> [page_id |-> INVALID_PAGE_ID, pin_count |-> 0,
                                is_dirty |-> FALSE, data |-> 0]]
  /\ page_table = << >>
  /\ free_list = [i \in 1 .. PoolSize |-> i - 1]
  /\ next_page_id = 0
  /\ disk = [p \in PageIds |-> 0]
  /\ replacer = InitReplacer
  /\ fault = "none"
  /\ holders = [p \in PageIds |-> 0]
  /\ unflushed = [p \in PageIds |-> FALSE]
  /\ evictedData = [p \in PageIds |-> -1]
  /\ lastWrites = << >>
  /\ lastEvict = NoEvict
  /\ guards = [g \in GuardIds |-> NoGuard]
  /\ latch = [f \in Frames |-> [readers |-> 0, writer |-> FALSE]]
  /\ pc = [t \in Threads |-> Idle]
  /\ pinsIssued = 0
  /\ unpinCalls = 0
  /\ droppedEmpty = FALSE
  /\ assignedOver = FALSE
  /\ heap = << >>
  /\ tries = <<nullptr>>
  /\ lastTrie = NoTrieOp
  /\ store_root = nullptr
  /\ root_lock = 0
  /\ write_lock = 0
  /\ callers = [t \in Threads |-> NoCall]
  /\ done = << >>
  /\ lastGet = NoGet
  /\ contended = FALSE

\* ---- SpecR: the replacer on its own --------------------------------------
RRecordAccess(f) ==
  /\ fault = "none"
  /\ replacer.current_timestamp < MaxTime
  /\ LET ra == RecordAccess(replacer, f)
     IN /\ replacer' = ra.r
        /\ fault' = IF ra.hung THEN "hung" ELSE "none"
  /\ lastEvict' = NoEvict
  /\ UNCHANGED <<bpmVars, ghostVars>>

RSetEvictable(f, b) ==
  /\ fault = "none"
  /\ replacer' = SetEvictable(replacer, f, b)
  /\ lastEvict' = NoEvict
  /\ UNCHANGED <<bpmVars, ghostVars, fault>>

REvict ==
  /\ fault = "none"
  /\ replacer.curr_size > -MaxWrap
  /\ LET e == Evict(replacer)
     IN /\ replacer' = e.r
        /\ lastEvict' = [called |-> TRUE, ok |-> e.ok, frame |-> e.frame, pre |-> replacer]
  /\ UNCHANGED <<bpmVars, ghostVars, fault>>

RRemove(f) ==
  /\ fault = "none"
  /\ replacer.curr_size > -MaxWrap
  /\ LET rm == Remove(replacer, f)
     IN /\ replacer' = rm.r
        /\ fault' = IF rm.asserted THEN "none" ELSE "assert"
  /\ lastEvict' = NoEvict
  /\ UNCHANGED <<bpmVars, ghostVars>>

InitR == InitBpm /\ variant = "A"

\* frame ids a caller of the replacer can pass to RecordAccess, which has no
\* range check: those of the replacer and the first one past replacer_size_
RecordAccessIds == Frames \cup {PoolSize}

NextR ==
  \/ \E f \in RecordAccessIds : RRecordAccess(f) /\ UNCHANGED restVars
  \/ \E f \in Frames, b \in BOOLEAN : RSetEvictable(f, b) /\ UNCHANGED restVars
  \/ REvict /\ UNCHANGED restVars
  \/ \E f \in Frames : RRemove(f) /\ UNCHANGED restVars

SpecR == InitR /\ [][NextR]_vars

\* ---- BufferPoolManager ---------------------------------------------------
Resident(pid) == pid \in DOMAIN page_table

\* GetCleanPage(&fid): a frame from the free list, else a victim of the
\* replacer, written back when dirty and unmapped; the frame's pin count is
\* set to 1 and its dirty flag cleared
GetCleanPage ==
  IF free_list # << >>
  THEN LET fid == Head(free_list)
       IN [ok |-> TRUE, fid |-> fid, free_list |-> Tail(free_list),
           replacer |-> replacer, page_table |-> page_table, disk |-> disk,
           pages |-> [pages EXCEPT ![fid].pin_count = 1, ![fid].is_dirty = FALSE],
           victim |-> INVALID_PAGE_ID, writes |-> 0]
  ELSE LET e == Evict(replacer)
       IN IF ~e.ok
          THEN [ok |-> FALSE, fid |-> NoFrame, free_list |-> free_list,
                replacer |-> replacer, page_table |-> page_table, disk |-> disk,
                pages |-> pages, victim |-> INVALID_PAGE_ID, writes |-> 0]
          ELSE LET fid == e.frame
                   old == pages[fid]
               IN [ok |-> TRUE, fid |-> fid, free_list |-> free_list,
                   replacer |-> e.r,
                   page_table |-> DropKey(page_table, old.page_id),
                   disk |-> IF old.is_dirty
                            THEN [disk EXCEPT ![old.page_id] = old.data]
                            ELSE disk,
                   pages |-> [pages EXCEPT ![fid].pin_count = 1, ![fid].is_dirty = FALSE],
                   victim |-> old.page_id,
                   writes |-> IF old.is_dirty THEN 1 ELSE 0]

\* bookkeeping of the write-back and the eviction of a GetCleanPage call c
UnflushedAfter(c) ==
  IF c.victim # INVALID_PAGE_ID /\ c.writes > 0
  THEN [unflushed EXCEPT ![c.victim] = FALSE]
  ELSE unflushed

EvictedDataAfter(c) ==
  IF c.victim # INVALID_PAGE_ID
  THEN [evictedData EXCEPT ![c.victim] = IF unflushed[c.victim] THEN pages[c.fid].data ELSE -1]
  ELSE evictedData

WritesOf(c) == IF c.ok /\ c.writes > 0 THEN <<c.victim>> ELSE << >>

FaultOf(ra) == IF ra.hung THEN "hung" ELSE "none"

\* the value a call hands back is v, if the call returns at all
RetOf(ra, ret, v) == ra.hung \/ ret = v

\* NewPage (the same code in both versions)
NewPage(ret) ==
  /\ fault = "none"
  /\ next_page_id < MaxPages
  /\ replacer.current_timestamp < MaxTime
  /\ \E c \in {GetCleanPage} :
       /\ lastWrites' = WritesOf(c)
       /\ IF ~c.ok
          THEN /\ ret = FALSE
               /\ UNCHANGED <<bpmVars, replacer, fault, holders, unflushed, evictedData>>
          ELSE \E ra \in {RecordAccess(c.replacer, c.fid)} :
                 /\ RetOf(ra, ret, TRUE)
                 /\ next_page_id' = next_page_id + 1
                 /\ pages' = [c.pages EXCEPT ![c.fid].page_id = next_page_id]
                 /\ page_table' = (next_page_id :> c.fid) @@ c.page_table
                 /\ free_list' = c.free_list
                 /\ disk' = c.disk
                 /\ replacer' = ra.r
                 /\ fault' = FaultOf(ra)
                 /\ holders' = [holders EXCEPT ![next_page_id] = @ + 1]
                 /\ unflushed' = UnflushedAfter(c)
                 /\ evictedData' = EvictedDataAfter(c)
                 /\ UNCHANGED variant
  /\ UNCHANGED lastEvict

\* the branch of FetchPage that loads a page that is not resident; it differs
\* between the versions only in the final SetEvictable(fid, false)
FetchCold(pid, set_evictable, ret) ==
  \E c \in {GetCleanPage} :
    /\ lastWrites' = WritesOf(c)
    /\ IF ~c.ok
       THEN /\ ret = FALSE
            /\ UNCHANGED <<bpmVars, replacer, fault, holders, unflushed, evictedData>>
       ELSE \E ra \in {RecordAccess(c.replacer, c.fid)} :
              /\ RetOf(ra, ret, TRUE)
              /\ pages' = [c.pages EXCEPT ![c.fid].page_id = pid,
                                          ![c.fid].data = c.disk[pid]]
              /\ page_table' = (pid :> c.fid) @@ c.page_table
              /\ free_list' = c.free_list
              /\ disk' = c.disk
              /\ replacer' = IF set_evictable /\ ~ra.hung
                             THEN SetEvictable(ra.r, c.fid, FALSE)
                             ELSE ra.r
              /\ fault' = FaultOf(ra)
              /\ holders' = [holders EXCEPT ![pid] = @ + 1]
              /\ unflushed' = UnflushedAfter(c)
              /\ evictedData' = [EvictedDataAfter(c) EXCEPT ![pid] = -1]
              /\ UNCHANGED <<variant, next_page_id>>

\* FetchPage of the first version
FetchPage1(pid, ret) ==
  /\ fault = "none"
  /\ variant = "A"
  /\ holders[pid] < MaxPin
  /\ replacer.current_timestamp < MaxTime
  /\ IF ~Resident(pid)
     THEN FetchCold(pid, TRUE, ret)
     ELSE \E ra \in {RecordAccess(replacer, page_table[pid])} :
            /\ pages' = [pages EXCEPT ![page_table[pid]].pin_count = @ + 1]
            /\ replacer' = IF ra.hung THEN ra.r
                           ELSE SetEvictable(ra.r, page_table[pid], FALSE)
            /\ fault' = FaultOf(ra)
            /\ RetOf(ra, ret, TRUE)
            /\ holders' = [holders EXCEPT ![pid] = @ + 1]
            /\ lastWrites' = << >>
            /\ UNCHANGED <<variant, page_table, free_list, next_page_id, disk,
                           unflushed, evictedData>>
  /\ UNCHANGED lastEvict

\* FetchPage of the second version
FetchPage2(pid, ret) ==
  /\ fault = "none"
  /\ variant = "B"
  /\ holders[pid] < MaxPin
  /\ replacer.current_timestamp < MaxTime
  /\ IF ~Resident(pid)
     THEN FetchCold(pid, FALSE, ret)
     ELSE \E ra \in {RecordAccess(replacer, page_table[pid])} :
            /\ replacer' = ra.r
            /\ fault' = FaultOf(ra)
            /\ RetOf(ra, ret, TRUE)
            /\ holders' = [holders EXCEPT ![pid] = @ + 1]
            /\ lastWrites' = << >>
            /\ UNCHANGED <<bpmVars, unflushed, evictedData>>
  /\ UNCHANGED lastEvict

\* a caller that gives up its claim on the page
Release(pid) == [holders EXCEPT ![pid] = IF @ > 0 THEN @ - 1 ELSE 0]

\* return false, before anything has been touched
UnpinFailed_ReturnsTrue(pid, is_dirty, ret) ==
  /\ holders' = Release(pid)
  /\ ret = TRUE
  /\ UNCHANGED <<bpmVars, replacer, fault, unflushed, evictedData>>

UnpinFailed(pid, is_dirty, ret) ==
  /\ holders' = Release(pid)
  /\ ret = FALSE
  /\ UNCHANGED <<bpmVars, replacer, fault, unflushed, evictedData>>

\* if (is_dirty) { page->is_dirty_ = true; }
DirtyAfterUnpin1_Assign(was_dirty, is_dirty) == is_dirty

DirtyAfterUnpin1(was_dirty, is_dirty) == IF is_dirty THEN TRUE ELSE was_dirty

\* UnpinPage of the first version
UnpinPage1(pid, is_dirty, ret) ==
  /\ fault = "none"
  /\ variant = "A"
  /\ IF ~Resident(pid)
     THEN UnpinFailed(pid, is_dirty, ret)
     ELSE LET fid == page_table[pid]
          IN IF pages[fid].pin_count <= 0
             THEN UnpinFailed(pid, is_dirty, ret)
             ELSE LET pin == pages[fid].pin_count - 1
                  IN /\ pages' = [pages EXCEPT ![fid].pin_count = pin,
                                               ![fid].is_dirty = DirtyAfterUnpin1(@, is_dirty)]
                     /\ replacer' = IF pin = 0
                                    THEN SetEvictable(replacer, fid, TRUE)
                                    ELSE replacer
                     /\ holders' = Release(pid)
                     /\ ret = TRUE
                     /\ unflushed' = [unflushed EXCEPT ![pid] = @ \/ is_dirty]
                     /\ UNCHANGED <<variant, page_table, free_list, next_page_id,
                                    disk, fault, evictedData>>
  /\ lastWrites' = << >>
  /\ UNCHANGED lastEvict

\* UnpinPage of the second version
UnpinPage2(pid, is_dirty, ret) ==
  /\ fault = "none"
  /\ variant = "B"
  /\ IF ~Resident(pid)
     THEN UnpinFailed(pid, is_dirty, ret)
     ELSE LET fid == page_table[pid]
          IN IF pages[fid].pin_count = 0
             THEN UnpinFailed(pid, is_dirty, ret)
             ELSE LET pin == pages[fid].pin_count - 1
                  IN /\ pages' = [pages EXCEPT ![fid].pin_count = pin,
                                               ![fid].is_dirty = is_dirty]
                     /\ replacer' = SetEvictable(replacer, fid, TRUE)
                     /\ holders' = Release(pid)
                     /\ ret = TRUE
                     /\ unflushed' = [unflushed EXCEPT ![pid] = @ \/ is_dirty]
                     /\ UNCHANGED <<variant, page_table, free_list, next_page_id,
                                    disk, fault, evictedData>>
  /\ lastWrites' = << >>
  /\ UNCHANGED lastEvict

\* FlushPageImpl on the record st of pages, disk and unflushed
FlushPageImpl(st, pid) ==
  LET fid == page_table[pid]
  IN [st EXCEPT !.disk[pid] = st.pages[fid].data,
                !.pages[fid].is_dirty = FALSE,
                !.unflushed[pid] = FALSE]

FlushState == [pages |-> pages, disk |-> disk, unflushed |-> unflushed,
               replacer |-> replacer, hung |-> FALSE]

\* FlushPage of the first version
FlushPage1(pid, ret) ==
  /\ fault = "none"
  /\ variant = "A"
  /\ IF ~Resident(pid)
     THEN /\ UNCHANGED <<pages, disk, unflushed>>
     ELSE LET st == FlushPageImpl(FlushState, pid)
          IN /\ pages' = st.pages
             /\ disk' = st.disk
             /\ unflushed' = st.unflushed
  /\ ret = Resident(pid)
  /\ lastWrites' = IF Resident(pid) THEN <<pid>> ELSE << >>
  /\ UNCHANGED <<variant, page_table, free_list, next_page_id, replacer, fault,
                 holders, evictedData, lastEvict>>

\* the body of FlushPage of the second version: write, then RecordAccess
FlushBody2(st, pid) ==
  IF st.hung THEN st
  ELSE LET w == FlushPageImpl(st, pid)
           ra == RecordAccess(st.replacer, page_table[pid])
       IN [w EXCEPT !.replacer = ra.r, !.hung = ra.hung]

\* FlushPage of the second version
FlushPage2(pid, ret) ==
  /\ fault = "none"
  /\ variant = "B"
  /\ IF ~Resident(pid)
     THEN /\ ret = FALSE
          /\ UNCHANGED <<pages, disk, unflushed, replacer, fault>>
     ELSE /\ replacer.current_timestamp < MaxTime
          /\ LET st == FlushBody2(FlushState, pid)
             IN /\ RetOf(st, ret, TRUE)
                /\ pages' = st.pages
                /\ disk' = st.disk
                /\ unflushed' = st.unflushed
                /\ replacer' = st.replacer
                /\ fault' = FaultOf(st)
  /\ lastWrites' = IF Resident(pid) THEN <<pid>> ELSE << >>
  /\ UNCHANGED <<variant, page_table, free_list, next_page_id, holders,
                 evictedData, lastEvict>>

\* the orders in which a loop over page_table_ (an unordered_map) can run
TableOrders ==
  LET n == Cardinality(DOMAIN page_table)
  IN {o \in [1 .. n -> DOMAIN page_table] : \A i, j \in 1 .. n : o[i] = o[j] => i = j}

RECURSIVE FlushEach1(_, _)
FlushEach1(st, order) ==
  IF order = << >> THEN st
  ELSE FlushEach1(FlushPageImpl(st, Head(order)), Tail(order))

RECURSIVE FlushEach2(_, _)
FlushEach2(st, order) ==
  IF order = << >> THEN st
  ELSE FlushEach2(FlushBody2(st, Head(order)), Tail(order))

\* FlushAllPages of the first version
FlushAllPages1 ==
  /\ fault = "none"
  /\ variant = "A"
  /\ \E order \in TableOrders :
       LET st == FlushEach1(FlushState, order)
       IN /\ pages' = st.pages
          /\ disk' = st.disk
          /\ unflushed' = st.unflushed
          /\ lastWrites' = [i \in 1 .. Len(order) |-> order[i]]
  /\ UNCHANGED <<variant, page_table, free_list, next_page_id, replacer, fault,
                 holders, evictedData, lastEvict>>

\* FlushAllPages of the second version
FlushAllPages2 ==
  /\ fault = "none"
  /\ variant = "B"
  /\ replacer.current_timestamp + Cardinality(DOMAIN page_table) <= MaxTime
  /\ \E order \in TableOrders :
       LET st == FlushEach2(FlushState, order)
       IN /\ pages' = st.pages
          /\ disk' = st.disk
          /\ unflushed' = st.unflushed
          /\ replacer' = st.replacer
          /\ fault' = FaultOf(st)
          /\ lastWrites' = [i \in 1 .. Len(order) |-> order[i]]
  /\ UNCHANGED <<variant, page_table, free_list, next_page_id, holders,
                 evictedData, lastEvict>>

\* the DeallocatePage calls a DeletePage call can make, as sequences of ids
Freed == {<< >>} \cup {<<p>> : p \in PageIds}

\* DeallocatePage(page_id): the id is handed back to the disk layer
DeallocatePage(pid) == <<pid>>

\* free_list_.push_back(fid)
FreeListAfterDelete_Forgotten(fl, fid) == fl

FreeListAfterDelete(fl, fid) == Append(fl, fid)

\* DeletePage (the same code in both versions)
DeletePage(pid, ret, freed) ==
  /\ fault = "none"
  /\ IF ~Resident(pid)
     THEN /\ ret = TRUE
          /\ freed = << >>
          /\ UNCHANGED <<page_table, free_list, replacer, fault, unflushed>>
     ELSE LET fid == page_table[pid]
          IN IF pages[fid].pin_count > 0
             THEN /\ ret = FALSE
                  /\ freed = << >>
                  /\ UNCHANGED <<page_table, free_list, replacer, fault, unflushed>>
             ELSE LET rm == Remove(replacer, fid)
                  IN /\ page_table' = DropKey(page_table, pid)
                     /\ replacer' = rm.r
                     /\ fault' = IF rm.asserted THEN "none" ELSE "assert"
                     /\ free_list' = IF rm.asserted THEN FreeListAfterDelete(free_list, fid) ELSE free_list
                     /\ freed = IF rm.asserted THEN DeallocatePage(pid) ELSE << >>
                     /\ rm.asserted => ret = TRUE
                     /\ unflushed' = [unflushed EXCEPT ![pid] = FALSE]
  /\ lastWrites' = << >>
  /\ UNCHANGED <<variant, pages, next_page_id, disk, holders, evictedData, lastEvict>>

\* a caller that holds the page writes v into its bytes (Page::GetData)
WriteData(pid, v) ==
  /\ fault = "none"
  /\ Resident(pid)
  /\ holders[pid] > 0
  /\ pages[page_table[pid]].data # v
  /\ pages' = [pages EXCEPT ![page_table[pid]].data = v]
  /\ lastWrites' = << >>
  /\ UNCHANGED <<variant, page_table, free_list, next_page_id, disk, replacer,
                 fault, holders, unflushed, evictedData, lastEvict>>

\* ---- Spec: the buffer pool manager's public operations ---------------------
Init == InitBpm /\ variant \in {"A", "B"}

Next ==
  \/ \E ret \in BOOLEAN : NewPage(ret) /\ UNCHANGED restVars
  \/ \E pid \in 0 .. (next_page_id - 1), ret \in BOOLEAN :
       FetchPage1(pid, ret) /\ UNCHANGED restVars
  \/ \E pid \in 0 .. (next_page_id - 1), ret \in BOOLEAN :
       FetchPage2(pid, ret) /\ UNCHANGED restVars
  \/ \E pid \in PageIds, is_dirty \in BOOLEAN, ret \in BOOLEAN :
       UnpinPage1(pid, is_dirty, ret) /\ UNCHANGED restVars
  \/ \E pid \in PageIds, is_dirty \in BOOLEAN, ret \in BOOLEAN :
       UnpinPage2(pid, is_dirty, ret) /\ UNCHANGED restVars
  \/ \E pid \in PageIds, ret \in BOOLEAN : FlushPage1(pid, ret) /\ UNCHANGED restVars
  \/ \E pid \in PageIds, ret \in BOOLEAN : FlushPage2(pid, ret) /\ UNCHANGED restVars
  \/ FlushAllPages1 /\ UNCHANGED restVars
  \/ FlushAllPages2 /\ UNCHANGED restVars
  \/ \E pid \in PageIds, ret \in BOOLEAN, freed \in Freed :
       DeletePage(pid, ret, freed) /\ UNCHANGED restVars

Spec == Init /\ [][Next]_vars

\* ---- SpecD: the same operations, with callers that write page bytes -------
NextD ==
  \/ Next
  \/ \E pid \in 0 .. MaxWritePage, v \in Data : WriteData(pid, v) /\ UNCHANGED restVars

SpecD == Init /\ [][NextD]_vars

\* ---- page guards ----------------------------------------------------------
\* the guard a factory returns: {this, page}
NewGuard(kind, page) == [kind |-> kind, page |-> page, is_dirty |-> FALSE, locked |-> FALSE]

Live(g) == guards[g].kind # "dead"

\* no thread has dereferenced a null Page pointer
Alive == \A t \in Threads : pc[t].op # "crashed"

\* the thread that makes the next call: threads differ in nothing but
\* where they wait, so it is the first one that is not inside a call
Runnable(t) ==
  /\ fault = "none"
  /\ Alive
  /\ pc[t] = Idle
  /\ \A u \in Threads : u < t => pc[u] # Idle

\* the place of the next guard object to be constructed
FreeSlot(g) == ~Live(g) /\ \A h \in GuardIds : h < g => Live(h)

\* the threads inside FetchPageRead / FetchPageWrite, waiting for the latch
Waiting == {t \in Threads : pc[t].op \in {"rlatch", "wlatch"}}

\* the factory call of this step may return page
Issues(page) == page = NoFrame \/ pinsIssued + Cardinality(Waiting) < MaxIssue

\* the Page* the FetchPage / NewPage call of this step returns for pid
Returned(pid) == IF holders'[pid] > holders[pid] THEN page_table'[pid] ELSE NoFrame

\* std::lock_guard on a WritePageGuard::latch_ that is already held
MutexHeld(g) == guards[g].kind = "write" /\ guards[g].locked

BlockOnMutex(t) == pc' = [pc EXCEPT ![t] = [op |-> "mutex", frame |-> NoFrame]]

\* BasicPageGuard::Drop, the call it makes: UnpinPage(page_->GetPageId(), is_dirty_)
DropUnpins(g) ==
  IF guards[g].page # NoFrame
  THEN /\ \E ret \in BOOLEAN :
            IF variant = "A"
            THEN UnpinPage1(pages[guards[g].page].page_id, guards[g].is_dirty, ret)
            ELSE UnpinPage2(pages[guards[g].page].page_id, guards[g].is_dirty, ret)
       /\ unpinCalls' = unpinCalls + 1
  ELSE UNCHANGED <<poolVars, unpinCalls>>

\* BasicPageGuard::Drop, the guard it leaves: page_ = nullptr
Dropped_KeepsPage(G, g) == G

Dropped(G, g) == [G EXCEPT ![g].page = NoFrame]

\* the guard g takes the members of the guard h, which is left empty
Moved(G, g, h) ==
  LET G2 == [G EXCEPT ![g].page = G[h].page, ![g].is_dirty = G[h].is_dirty]
  IN [G2 EXCEPT ![h].page = NoFrame, ![h].is_dirty = FALSE]

\* NewPageGuarded into the guard object g
NewPageGuarded(t, g) ==
  /\ Runnable(t)
  /\ FreeSlot(g)
  /\ IF variant = "A"
     THEN /\ \E ret \in BOOLEAN : NewPage(ret)
          /\ Issues(Returned(next_page_id))
          /\ guards' = [guards EXCEPT ![g] = NewGuard("basic", Returned(next_page_id))]
          /\ pinsIssued' = pinsIssued + (IF Returned(next_page_id) # NoFrame THEN 1 ELSE 0)
     ELSE /\ guards' = [guards EXCEPT ![g] = NewGuard("basic", NoFrame)]
          /\ UNCHANGED <<poolVars, pinsIssued>>
  /\ UNCHANGED <<latch, pc, unpinCalls, droppedEmpty, assignedOver>>

\* FetchPageBasic into the guard object g
FetchPageBasic(t, pid, g) ==
  /\ Runnable(t)
  /\ FreeSlot(g)
  /\ IF variant = "A"
     THEN /\ pid < next_page_id
          /\ \E ret \in BOOLEAN : FetchPage1(pid, ret)
          /\ Issues(Returned(pid))
          /\ guards' = [guards EXCEPT ![g] = NewGuard("basic", Returned(pid))]
          /\ pinsIssued' = pinsIssued + (IF Returned(pid) # NoFrame THEN 1 ELSE 0)
     ELSE /\ guards' = [guards EXCEPT ![g] = NewGuard("basic", NoFrame)]
          /\ UNCHANGED <<poolVars, pinsIssued>>
  /\ UNCHANGED <<latch, pc, unpinCalls, droppedEmpty, assignedOver>>

\* FetchPageRead / FetchPageWrite up to the latch call: the first version
\* calls FetchPage and goes on to page->RLatch() / page->WLatch(), on a null
\* page too; the second version returns {this, nullptr} at once
FetchPageLatched(t, pid, g, kind, wait) ==
  /\ Runnable(t)
  /\ FreeSlot(g)
  /\ IF variant = "A"
     THEN /\ pid < next_page_id
          /\ \E ret \in BOOLEAN : FetchPage1(pid, ret)
          /\ Issues(Returned(pid))
          /\ pc' = [pc EXCEPT ![t] = IF Returned(pid) = NoFrame
                                     THEN [op |-> "crashed", frame |-> NoFrame]
                                     ELSE [op |-> wait, frame |-> Returned(pid)]]
          /\ UNCHANGED guards
     ELSE /\ guards' = [guards EXCEPT ![g] = NewGuard(kind, NoFrame)]
          /\ UNCHANGED <<poolVars, pc>>
  /\ UNCHANGED <<latch, pinsIssued, unpinCalls, droppedEmpty, assignedOver>>

FetchPageRead(t, pid, g) == FetchPageLatched(t, pid, g, "read", "rlatch")

FetchPageWrite(t, pid, g) == FetchPageLatched(t, pid, g, "write", "wlatch")

\* page->RLatch() returns and FetchPageRead returns the guard
RLatch(t, g) ==
  /\ fault = "none"
  /\ Alive
  /\ pc[t].op = "rlatch"
  /\ FreeSlot(g)
  /\ ~latch[pc[t].frame].writer
  /\ latch' = [latch EXCEPT ![pc[t].frame].readers = @ + 1]
  /\ guards' = [guards EXCEPT ![g] = NewGuard("read", pc[t].frame)]
  /\ pc' = [pc EXCEPT ![t] = Idle]
  /\ pinsIssued' = pinsIssued + 1
  /\ UNCHANGED <<poolVars, unpinCalls, droppedEmpty, assignedOver>>

\* page->WLatch() returns and FetchPageWrite returns the guard
WLatch(t, g) ==
  /\ fault = "none"
  /\ Alive
  /\ pc[t].op = "wlatch"
  /\ FreeSlot(g)
  /\ ~latch[pc[t].frame].writer
  /\ latch[pc[t].frame].readers = 0
  /\ latch' = [latch EXCEPT ![pc[t].frame].writer = TRUE]
  /\ guards' = [guards EXCEPT ![g] = NewGuard("write", pc[t].frame)]
  /\ pc' = [pc EXCEPT ![t] = Idle]
  /\ pinsIssued' = pinsIssued + 1
  /\ UNCHANGED <<poolVars, unpinCalls, droppedEmpty, assignedOver>>

\* move construction of the guard object g from the guard h
MoveConstruct(t, g, h) ==
  /\ Runnable(t)
  /\ FreeSlot(g)
  /\ Live(h)
  /\ IF MutexHeld(h)
     THEN BlockOnMutex(t) /\ UNCHANGED guards
     ELSE /\ guards' = Moved([guards EXCEPT ![g] = NewGuard(guards[h].kind, NoFrame)], g, h)
          /\ UNCHANGED pc
  /\ UNCHANGED <<poolVars, latch, pinsIssued, unpinCalls, droppedEmpty, assignedOver>>

\* move assignment g = std::move(h); for a WritePageGuard it locks g's
\* latch_ and then h's, so with g = h the thread waits for a mutex it holds
MoveAssign(t, g, h) ==
  /\ Runnable(t)
  /\ Live(g)
  /\ guards[h].kind = guards[g].kind
  /\ IF MutexHeld(g)
     THEN /\ BlockOnMutex(t)
          /\ UNCHANGED <<poolVars, guards, unpinCalls, droppedEmpty, assignedOver>>
     ELSE IF guards[g].kind = "write" /\ (g = h \/ MutexHeld(h))
     THEN /\ BlockOnMutex(t)
          /\ guards' = [guards EXCEPT ![g].locked = TRUE]
          /\ UNCHANGED <<poolVars, unpinCalls, droppedEmpty, assignedOver>>
     ELSE /\ DropUnpins(g)
          /\ guards' = Moved(Dropped(guards, g), g, h)
          /\ droppedEmpty' = (droppedEmpty \/ guards[g].page = NoFrame)
          /\ assignedOver' = (assignedOver \/ guards[g].page # NoFrame)
          /\ UNCHANGED pc
  /\ UNCHANGED <<latch, pinsIssued>>

\* Drop() called on the guard g
Drop(t, g) ==
  /\ Runnable(t)
  /\ Live(g)
  /\ IF MutexHeld(g)
     THEN /\ BlockOnMutex(t)
          /\ UNCHANGED <<poolVars, guards, unpinCalls, droppedEmpty>>
     ELSE /\ DropUnpins(g)
          /\ guards' = Dropped(guards, g)
          /\ droppedEmpty' = (droppedEmpty \/ guards[g].page = NoFrame)
          /\ UNCHANGED pc
  /\ UNCHANGED <<latch, pinsIssued, assignedOver>>

\* the destructor of the guard g: Drop(), and the object is gone
Destroy(t, g) ==
  /\ Runnable(t)
  /\ Live(g)
  /\ IF MutexHeld(g)
     THEN /\ BlockOnMutex(t)
          /\ UNCHANGED <<poolVars, guards, unpinCalls, droppedEmpty>>
     ELSE /\ DropUnpins(g)
          /\ guards' = [Dropped(guards, g) EXCEPT ![g] = NoGuard]
          /\ droppedEmpty' = (droppedEmpty \/ guards[g].page = NoFrame)
          /\ UNCHANGED pc
  /\ UNCHANGED <<latch, pinsIssued, assignedOver>>

\* ---- SpecG: threads that use the pool through page guards ------------------
NextG ==
  \/ \E t \in Threads, g \in GuardIds : NewPageGuarded(t, g) /\ UNCHANGED libVars
  \/ \E t \in Threads, pid \in PageIds, g \in GuardIds : FetchPageBasic(t, pid, g) /\ UNCHANGED libVars
  \/ \E t \in Threads, pid \in PageIds, g \in GuardIds : FetchPageRead(t, pid, g) /\ UNCHANGED libVars
  \/ \E t \in Threads, pid \in PageIds, g \in GuardIds : FetchPageWrite(t, pid, g) /\ UNCHANGED libVars
  \/ \E t \in Threads, g \in GuardIds : RLatch(t, g) /\ UNCHANGED libVars
  \/ \E t \in Threads, g \in GuardIds : WLatch(t, g) /\ UNCHANGED libVars
  \/ \E t \in Threads, g, h \in GuardIds : MoveConstruct(t, g, h) /\ UNCHANGED libVars
  \/ \E t \in Threads, g, h \in GuardIds : MoveAssign(t, g, h) /\ UNCHANGED libVars
  \/ \E t \in Threads, g \in GuardIds : Drop(t, g) /\ UNCHANGED libVars
  \/ \E t \in Threads, g \in GuardIds : Destroy(t, g) /\ UNCHANGED libVars

SpecG == Init /\ [][NextG]_vars

\* ---- Trie ------------------------------------------------------------------
\* TrieNode(children) and TrieNodeWithValue(children, value)
PlainNode(children) == [children |-> children, is_value |-> FALSE, value |-> NoValue]

ValueNode(children, value) == [children |-> children, is_value |-> TRUE, value |-> value]

\* a node is allocated: the heap with it, and its id
Alloc(h, node) == [heap |-> Append(h, node), node |-> Len(h) + 1]

\* TrieNode::Clone and TrieNodeWithValue::Clone: a new node with the same
\* children_ and the same value
Clone(h, n) == Alloc(h, h[n])

\* the loop of Trie::Get: the node the key leads to, nullptr if none
RECURSIVE Walk(_, _, _, _)
Walk(h, node, key, index) ==
  IF index > Len(key) THEN node
  ELSE IF node = nullptr THEN nullptr
  ELSE IF key[index] \notin DOMAIN h[node].children THEN nullptr
  ELSE Walk(h, h[node].children[key[index]], key, index + 1)

\* Trie::Get on the trie with root_ = root
TrieGet(h, root, key) ==
  LET node == Walk(h, root, key, 1)
  IN IF node = nullptr THEN NoValue
     ELSE IF h[node].is_value THEN h[node].value
     ELSE NoValue

\* PutHelper at the end of the key: the node that carries the value
PutTerminal_NoChildren(h, node, value) == Alloc(h, ValueNode(<< >>, value))

PutTerminal(h, node, value) == Alloc(h, ValueNode(h[node].children, value))

\* PutHelper: child = search->second->Clone()
ChildCopy_Shared(h, n) == [heap |-> h, node |-> n]

ChildCopy(h, n) == Clone(h, n)

\* PutHelper on the node `node', which the caller owns
RECURSIVE PutHelper(_, _, _, _, _)
PutHelper(h, node, key, index, value) ==
  IF index > Len(key)
  THEN PutTerminal(h, node, value)
  ELSE LET c == key[index]
           child == IF c \in DOMAIN h[node].children
                    THEN ChildCopy(h, h[node].children[c])
                    ELSE Alloc(h, PlainNode(<< >>))
           r == PutHelper(child.heap, child.node, key, index + 1, value)
       IN [heap |-> [r.heap EXCEPT ![node].children = (c :> r.node) @@ @],
           node |-> node]

\* Trie::Put: root = root_->Clone()
RootCopy_Shared(h, n) == [heap |-> h, node |-> n]

RootCopy(h, n) == Clone(h, n)

\* Trie::Put on the trie with root_ = root
TriePut(h, root, key, value) ==
  LET start == IF root = nullptr THEN Alloc(h, PlainNode(<< >>)) ELSE RootCopy(h, root)
  IN PutHelper(start.heap, start.node, key, 1, value)

\* RemoveHelper when the erased child leaves the node without children:
\* if (node->children_.empty() && !(node->is_value_node_)) return nullptr
AfterErase_KeepsNode(h, node) == node

AfterErase_IgnoresValue(h, node) ==
  IF DOMAIN h[node].children = {} THEN nullptr ELSE node

AfterErase(h, node) ==
  IF DOMAIN h[node].children = {} /\ ~h[node].is_value THEN nullptr ELSE node

\* RemoveHelper on the node `node', which the caller owns
RECURSIVE RemoveHelper(_, _, _, _)
RemoveHelper(h, node, key, index) ==
  IF index > Len(key)
  THEN IF DOMAIN h[node].children = {}
       THEN [heap |-> h, node |-> nullptr]
       ELSE Alloc(h, PlainNode(h[node].children))
  ELSE LET c == key[index]
       IN IF c \notin DOMAIN h[node].children
          THEN [heap |-> h, node |-> node]
          ELSE LET copy == Clone(h, h[node].children[c])
                   r == RemoveHelper(copy.heap, copy.node, key, index + 1)
                   erased == [r.heap EXCEPT ![node].children = DropKey(@, c)]
               IN IF r.node = nullptr
                  THEN [heap |-> erased, node |-> AfterErase(erased, node)]
                  ELSE [heap |-> [r.heap EXCEPT ![node].children = (c :> r.node) @@ @],
                        node |-> node]

\* Trie::Remove on the trie with root_ = root
TrieRemove(h, root, key) ==
  IF root = nullptr
  THEN [heap |-> h, node |-> nullptr]
  ELSE LET start == Clone(h, root)
       IN RemoveHelper(start.heap, start.node, key, 1)

\* what Get returns on the trie with root_ = root, for every key
GetMap(h, root) == [k \in Keys |-> TrieGet(h, root, k)]

\* ---- SpecT: Put and Remove on the tries produced so far --------------------
TPut(i, key, value) ==
  /\ Len(tries) <= MaxOps
  /\ \E r \in {TriePut(heap, tries[i], key, value)} :
       /\ heap' = r.heap
       /\ tries' = Append(tries, r.node)
  /\ lastTrie' = [op |-> "put", base |-> i, key |-> key, value |-> value,
                  before |-> GetMap(heap, tries[i])]
  /\ UNCHANGED <<poolVars, guardVars>>

TRemove(i, key) ==
  /\ Len(tries) <= MaxOps
  /\ \E r \in {TrieRemove(heap, tries[i], key)} :
       /\ heap' = r.heap
       /\ tries' = Append(tries, r.node)
  /\ lastTrie' = [op |-> "remove", base |-> i, key |-> key, value |-> NoValue,
                  before |-> GetMap(heap, tries[i])]
  /\ UNCHANGED <<poolVars, guardVars>>

InitT == InitBpm /\ variant = "A"

NextT ==
  \/ \E i \in 1 .. Len(tries), key \in Keys, value \in Values :
       TPut(i, key, value) /\ UNCHANGED storeVars
  \/ \E i \in 1 .. Len(tries), key \in Keys : TRemove(i, key) /\ UNCHANGED storeVars

SpecT == InitT /\ [][NextT]_vars

\* ---- TrieStore --------------------------------------------------------------
InCall == {t \in Threads : callers[t].pc # "idle"}

\* write_lock_.lock() returns when no thread holds write_lock_
WriteLockFree_Ignored == TRUE

WriteLockFree == write_lock = 0

\* a thread calls Get(key), Put(key, value) or Remove(key); threads differ
\* in nothing but the call they are in, so it is the first idle one
StartCall(t, op, key, value) ==
  /\ callers[t].pc = "idle"
  /\ \A u \in Threads : u < t => callers[u].pc # "idle"
  /\ Len(done) + Cardinality(InCall) < MaxCalls
  /\ callers' = [callers EXCEPT ![t] =
       [pc |-> IF op = "get" THEN "root_lock" ELSE "write_lock",
        op |-> op, key |-> key, value |-> value, root |-> nullptr,
        seen |-> IF op = "get" THEN {TrieGet(heap, store_root, key)} ELSE {}]]
  /\ contended' = (contended \/ (op # "get" /\ write_lock # 0))
  /\ UNCHANGED <<store_root, root_lock, write_lock, done, lastGet, trieVars>>

\* Put / Remove: write_lock_.lock()
LockWrite(t) ==
  /\ callers[t].pc = "write_lock"
  /\ WriteLockFree
  /\ write_lock' = t
  /\ callers' = [callers EXCEPT ![t].pc = "root_lock"]
  /\ UNCHANGED <<store_root, root_lock, done, lastGet, contended, trieVars>>

\* root_lock_.lock(), before the root is copied or installed
LockRoot(t) ==
  /\ callers[t].pc \in {"root_lock", "install_lock"}
  /\ root_lock = 0
  /\ root_lock' = t
  /\ callers' = [callers EXCEPT ![t].pc = IF @ = "root_lock" THEN "copy" ELSE "install"]
  /\ UNCHANGED <<store_root, write_lock, done, lastGet, contended, trieVars>>

\* root_lock_.unlock(): the holder of root_lock_ afterwards
UnlockRoot_Skipped(t) == root_lock

UnlockRoot(t) == 0

\* auto root = root_; root_lock_.unlock()
CopyRoot(t) ==
  /\ callers[t].pc = "copy"
  /\ callers' = [callers EXCEPT ![t].root = store_root,
                                ![t].pc = IF callers[t].op = "get" THEN "lookup" ELSE "compute"]
  /\ root_lock' = UnlockRoot(t)
  /\ UNCHANGED <<store_root, write_lock, done, lastGet, contended, trieVars>>

\* root = root.Put(key, std::move(value)) or root = root.Remove(key)
Compute(t) ==
  /\ callers[t].pc = "compute"
  /\ \E r \in {IF callers[t].op = "put"
               THEN TriePut(heap, callers[t].root, callers[t].key, callers[t].value)
               ELSE TrieRemove(heap, callers[t].root, callers[t].key)} :
       /\ heap' = r.heap
       /\ callers' = [callers EXCEPT ![t].root = r.node, ![t].pc = "install_lock"]
  /\ UNCHANGED <<store_root, root_lock, write_lock, done, lastGet, contended,
                 tries, lastTrie>>

\* root_ = std::move(root); root_lock_.unlock(). Every Get that is under way
\* notes what the installed root returns for its key
Install(t) ==
  /\ callers[t].pc = "install"
  /\ store_root' = callers[t].root
  /\ root_lock' = UnlockRoot(t)
  /\ callers' = [u \in Threads |->
       IF u = t THEN [callers[u] EXCEPT !.pc = "write_unlock"]
       ELSE IF callers[u].op = "get"
       THEN [callers[u] EXCEPT !.seen = @ \cup {TrieGet(heap, callers[t].root, callers[u].key)}]
       ELSE callers[u]]
  /\ UNCHANGED <<write_lock, done, lastGet, contended, trieVars>>

\* write_lock_.unlock(), and Put / Remove returns
UnlockWrite(t) ==
  /\ callers[t].pc = "write_unlock"
  /\ write_lock' = 0
  /\ done' = Append(done, [op |-> callers[t].op, key |-> callers[t].key,
                           value |-> callers[t].value])
  /\ callers' = [callers EXCEPT ![t] = NoCall]
  /\ UNCHANGED <<store_root, root_lock, lastGet, contended, trieVars>>

\* Get: root.Get<T>(key) on the copied root, and Get returns
Lookup(t) ==
  /\ callers[t].pc = "lookup"
  /\ lastGet' = [op |-> "get", key |-> callers[t].key,
                 result |-> TrieGet(heap, callers[t].root, callers[t].key),
                 allowed |-> callers[t].seen]
  /\ done' = Append(done, [op |-> "get", key |-> callers[t].key, value |-> NoValue])
  /\ callers' = [callers EXCEPT ![t] = NoCall]
  /\ UNCHANGED <<store_root, root_lock, write_lock, contended, trieVars>>

\* ---- SpecS: threads that call the TrieStore --------------------------------
NextS ==
  \/ \E t \in Threads, key \in StoreKeys :
       StartCall(t, "get", key, NoValue) /\ UNCHANGED <<poolVars, guardVars>>
  \/ \E t \in Threads, key \in StoreKeys, value \in Values :
       StartCall(t, "put", key, value) /\ UNCHANGED <<poolVars, guardVars>>
  \/ \E t \in Threads, key \in StoreKeys :
       StartCall(t, "remove", key, NoValue) /\ UNCHANGED <<poolVars, guardVars>>
  \/ \E t \in Threads : LockWrite(t) /\ UNCHANGED <<poolVars, guardVars>>
  \/ \E t \in Threads : LockRoot(t) /\ UNCHANGED <<poolVars, guardVars>>
  \/ \E t \in Threads : CopyRoot(t) /\ UNCHANGED <<poolVars, guardVars>>
  \/ \E t \in Threads : Compute(t) /\ UNCHANGED <<poolVars, guardVars>>
  \/ \E t \in Threads : Install(t) /\ UNCHANGED <<poolVars, guardVars>>
  \/ \E t \in Threads : UnlockWrite(t) /\ UNCHANGED <<poolVars, guardVars>>
  \/ \E t \in Threads : Lookup(t) /\ UNCHANGED <<poolVars, guardVars>>

SpecS == InitT /\ [][NextS]_vars

\* ---- claims about the replacer (SpecR) -----------------------------------
Tracked(r) == {r.fifo[i] : i \in 1 .. Len(r.fifo)} \cup {r.lru[i] : i \in 1 .. Len(r.lru)}

EvictableTracked(r) == {f \in Tracked(r) : NodeAt(r, f).is_evictable}

EvictableNodes(r) == {f \in DOMAIN r.node_store : r.node_store[f].is_evictable}

\* every node of node_store_ is in one of the lists and curr_size_ counts
\* the evictable ones: no node was created by SetEvictable's node_store_[f]
NoStrayNode(r) ==
  /\ DOMAIN r.node_store = Tracked(r)
  /\ r.curr_size = Cardinality(EvictableTracked(r))

\* evictable frames with fewer than K recorded accesses
Young(r) == {f \in EvictableTracked(r) : Len(NodeAt(r, f).history) < K}

\* C8: Evict returns a frame only if the replacer holds a node for it whose
\* evictable flag is set, and returns none exactly when no node is evictable
C8_EvictOnlyEvictable ==
  lastEvict.called =>
    /\ lastEvict.ok => lastEvict.frame \in EvictableNodes(lastEvict.pre)
    /\ (~lastEvict.ok) <=> (EvictableNodes(lastEvict.pre) = {})

\* C9: when an evictable frame has fewer than K accesses, Evict returns the
\* one of them whose first access is earliest (frame 0 included); a frame
\* with K or more accesses is returned only when there is no such frame.
\* Stated for the calls made in a state without stray nodes.
C9_EvictPrefersYoung ==
  (lastEvict.called /\ NoStrayNode(lastEvict.pre)) =>
    LET pre == lastEvict.pre
        hist(f) == NodeAt(pre, f).history
    IN /\ Young(pre) # {} =>
            /\ lastEvict.ok
            /\ lastEvict.frame \in Young(pre)
            /\ \A g \in Young(pre) : hist(lastEvict.frame)[1] <= hist(g)[1]
       /\ (lastEvict.ok /\ Len(hist(lastEvict.frame)) >= K) => Young(pre) = {}

\* C10: when every evictable frame has at least K accesses, Evict returns the
\* evictable frame whose K-th most recent access is the earliest.
\* Stated for the calls made in a state without stray nodes.
C10_EvictMaxKDistance ==
  (lastEvict.called /\ NoStrayNode(lastEvict.pre)) =>
    LET pre == lastEvict.pre
        hist(f) == NodeAt(pre, f).history
    IN (EvictableTracked(pre) # {} /\ Young(pre) = {}) =>
          /\ lastEvict.ok
          /\ lastEvict.frame \in EvictableTracked(pre)
          /\ \A g \in EvictableTracked(pre) : hist(lastEvict.frame)[1] <= hist(g)[1]

\* ---- claims about the buffer pool manager (Spec, SpecD) --------------------
FrameOf(p) == page_table[p]

\* the step takes the frame of page p as a victim: p leaves the page table
\* and its frame holds another page afterwards
Evicted(p) ==
  /\ p \in DOMAIN page_table
  /\ p \notin DOMAIN page_table'
  /\ \E q \in DOMAIN page_table' : page_table'[q] = page_table[p]

\* the step is a successful NewPage or FetchPage of page p
Pinned(p) == holders'[p] > holders[p]

\* the step is a successful FetchPage of page p
Fetched(p) == Pinned(p) /\ p < next_page_id

\* C1: a frame is taken as a victim only when the pin count of its page is 0
\* and no caller that fetched the page still holds it
C1_EvictOnlyUnpinned ==
  [][\A p \in PageIds : Evicted(p) =>
        /\ pages[FrameOf(p)].pin_count = 0
        /\ holders[p] = 0]_vars

\* the part of C1 that reads only the stored pin count
C1_StoredPinCount ==
  [][\A p \in PageIds : Evicted(p) => pages[FrameOf(p)].pin_count = 0]_vars

C3_PinnedNotEvictable ==
  [][/\ \A f \in Frames :
          pages'[f].pin_count > 0 => ~NodeAt(replacer', f).is_evictable
     /\ \A p \in PageIds :
          Pinned(p) => ~NodeAt(replacer', page_table'[p]).is_evictable]_vars

\* the part of C3 that reads only the stored pin count
C3_StoredPinCount ==
  \A f \in Frames : pages[f].pin_count > 0 => ~NodeAt(replacer, f).is_evictable

\* C6: a successful FetchPage adds one to the page's pin count (0 -> 1 for a
\* page that was not resident) and leaves its frame not evictable
C6_FetchPins ==
  [][\A p \in PageIds : Fetched(p) =>
        /\ pages'[page_table'[p]].pin_count =
             (IF p \in DOMAIN page_table THEN pages[FrameOf(p)].pin_count ELSE 0) + 1
        /\ ~NodeAt(replacer', page_table'[p]).is_evictable]_vars

\* C7: the free list and the page table partition the frames
FreeSet == {free_list[i] : i \in 1 .. Len(free_list)}

MappedSet == {page_table[p] : p \in DOMAIN page_table}

Owners(f) == {g \in GuardIds : guards[g].page = f}

Owning == {g \in GuardIds : guards[g].page # NoFrame}

WaitingOn(f) == {t \in Waiting : pc[t].frame = f}

\* C4: every pin handed to a guard is released by exactly one UnpinPage call,
\* whatever the sequence of factory calls, move constructions, move
\* assignments, Drop calls and destructions: the pins handed out are the
\* UnpinPage calls made plus the guards that still own a page, so a Drop of
\* an empty or moved-from guard unpins nothing and a move assignment unpins
\* the target's previous page once
C4_OneUnpinPerPin == pinsIssued = unpinCalls + Cardinality(Owning)

\* the pin count of a frame is the number of guards that own it plus the
\* threads still inside a factory call on it
C4_PinCountMatchesGuards ==
  \A f \in Frames :
    pages[f].pin_count = Cardinality(Owners(f)) + Cardinality(WaitingOn(f))

\* pins have been released by guards, among them one by a move assignment over
\* a guard that owned a page, an empty guard has been dropped, and a guard
\* still owns a page
C4_Witness ==
  /\ droppedEmpty
  /\ assignedOver
  /\ unpinCalls >= 2
  /\ Owning # {}

\* C5: the latch of a frame is held only on behalf of guards that have not
\* been dropped: the write latch by a WritePageGuard that owns the frame, the
\* read latch once for every ReadPageGuard that owns the frame
C5_LatchReleasedOnDrop ==
  \A f \in Frames :
    /\ latch[f].writer => \E g \in Owners(f) : guards[g].kind = "write"
    /\ latch[f].readers = Cardinality({g \in Owners(f) : guards[g].kind = "read"})

\* ---- claims about the trie (SpecT) -----------------------------------------
\* the trie the last call returned
NewTrie == tries[Len(tries)]

\* k is a proper prefix of k2
ProperPrefix(k, k2) == Len(k) < Len(k2) /\ SubSeq(k2, 1, Len(k)) = k

\* the nodes of the trie with root_ = root
ReachFrom(h, root) ==
  IF root = nullptr THEN {}
  ELSE LET Child(n, c) == IF c \in DOMAIN h[n].children THEN h[n].children[c] ELSE nullptr
           RECURSIVE Grow(_, _)
           Grow(S, depth) ==
             IF depth = 0 THEN S
             ELSE Grow(S \cup ({Child(n, c) : n \in S, c \in Chars} \ {nullptr}), depth - 1)
       IN Grow({root}, MaxKeyLen)

\* C11: for every trie t, key k and value v, t.put(k, v) returns v for k and
\* what t returned for every other key
C11_PutThenGet ==
  lastTrie.op = "put" =>
    GetMap(heap, NewTrie) = [lastTrie.before EXCEPT ![lastTrie.key] = lastTrie.value]

\* a put that replaces the value of a key that has a longer key below it
C11_Witness ==
  /\ lastTrie.op = "put"
  /\ lastTrie.before[lastTrie.key] \notin {NoValue, lastTrie.value}
  /\ \E k \in Keys : ProperPrefix(lastTrie.key, k) /\ lastTrie.before[k] # NoValue

\* C12: for every trie t and key k, t.remove(k) returns nothing for k and
\* what t returned for every other key; with k absent from t the result
\* returns what t returned for all keys
C12_RemoveThenGet ==
  lastTrie.op = "remove" =>
    GetMap(heap, NewTrie) = [lastTrie.before EXCEPT ![lastTrie.key] = NoValue]

\* a remove of an absent key that extends one stored key and is a proper
\* prefix of another
C12_Witness ==
  /\ lastTrie.op = "remove"
  /\ lastTrie.before[lastTrie.key] = NoValue
  /\ \E k \in Keys : ProperPrefix(lastTrie.key, k) /\ lastTrie.before[k] # NoValue
  /\ \E k \in Keys : ProperPrefix(k, lastTrie.key) /\ lastTrie.before[k] # NoValue

\* C13: the trie is persistent: a put or remove changes no node of a trie
\* produced before, and every trie produced before returns for every key
\* what it returned before the call
C13_Persistent ==
  [][\A i \in 1 .. Len(tries) :
       /\ tries'[i] = tries[i]
       /\ \A n \in ReachFrom(heap, tries[i]) : heap'[n] = heap[n]
       /\ GetMap(heap', tries[i]) = GetMap(heap, tries[i])]_vars

\* a call on a trie that is not the newest one has returned a different trie
\* that shares nodes with it
C13_Witness ==
  /\ lastTrie.op # "none"
  /\ lastTrie.base < Len(tries) - 1
  /\ GetMap(heap, NewTrie) # GetMap(heap, tries[lastTrie.base])
  /\ ReachFrom(heap, NewTrie) \cap ReachFrom(heap, tries[lastTrie.base]) # {}

\* ---- claims about the TrieStore (SpecS) ------------------------------------
\* the threads between write_lock_.lock() and write_lock_.unlock()
Writing == {t \in Threads : callers[t].pc \in {"root_lock", "copy", "compute",
                                              "install_lock", "install", "write_unlock"}
                            /\ callers[t].op # "get"}

\* what the keys map to after the call o on a trie whose keys map as m
ApplyOp(m, o) ==
  IF o.op = "put" THEN [m EXCEPT ![o.key] = o.value]
  ELSE IF o.op = "remove" THEN [m EXCEPT ![o.key] = NoValue]
  ELSE m

RECURSIVE ApplyAll(_, _, _)
ApplyAll(m, ops, order) ==
  IF order = << >> THEN m
  ELSE ApplyAll(ApplyOp(m, ops[Head(order)]), ops, Tail(order))

\* the serial orders of n calls
Orders(n) == {o \in [1 .. n -> 1 .. n] : \A i, j \in 1 .. n : o[i] = o[j] => i = j}

\* C14: TrieStore writers exclude each other from the root snapshot to the
\* installation of the new root, and no update is lost: when all calls have
\* returned, the root is the result of applying the Put and Remove calls in
\* some serial order
C14_WritersSerialised ==
  /\ Cardinality(Writing) <= 1
  /\ InCall = {} =>
       \E order \in Orders(Len(done)) :
         GetMap(heap, store_root) = ApplyAll([k \in Keys |-> NoValue], done, order)

\* two writes have returned, one of which had to wait for write_lock_, and
\* the store is not empty
C14_Witness ==
  /\ InCall = {}
  /\ contended
  /\ Cardinality({i \in 1 .. Len(done) : done[i].op # "get"}) >= 2
  /\ store_root # nullptr

\* C15: a Get that runs while writers run returns what one installed root
\* returns for the key: the root at the time of the call or one installed
\* before the Get returned, never a trie that is still being built
C15_GetSeesInstalledRoot ==
  lastGet.op = "get" => lastGet.result \in lastGet.allowed

\* a Get has returned a value while a root with another answer was
\* installed during the call
C15_Witness ==
  /\ lastGet.op = "get"
  /\ lastGet.result # NoValue
  /\ Cardinality(lastGet.allowed) >= 2

\* ---- the buffer pool manager's calls that refuse or fail -------------------
\* a step of UnpinPage(pid, is_dirty) that returns ret, in either version
UnpinStep(pid, is_dirty, ret) ==
  UnpinPage1(pid, is_dirty, ret) \/ UnpinPage2(pid, is_dirty, ret)

PinCountOf(pid) == pages[page_table[pid]].pin_count

DirtyOf(pid) == pages[page_table[pid]].is_dirty

\* C16: UnpinPage(pid, is_dirty) returns false when pid is not resident or its
\* pin count is already 0, and then leaves the pin counts, the dirty flags, the
\* page table, the free list and the replacer as they were; no step makes a
\* pin count negative.
C16_UnpinRefused ==
  [][/\ \A f \in Frames : pages'[f].pin_count >= 0
     /\ \A pid \in PageIds, is_dirty \in BOOLEAN, ret \in BOOLEAN :
          (UnpinStep(pid, is_dirty, ret) /\ (~Resident(pid) \/ PinCountOf(pid) = 0))
            => /\ ret = FALSE
               /\ UNCHANGED <<pages, page_table, free_list, replacer>>]_vars

\* a state in which UnpinPage refuses for either reason: a resident page whose
\* pin count is 0, left dirty by its last unpin, and a page that has lost its
\* frame
C16_Witness ==
  /\ \E pid \in PageIds : Resident(pid) /\ PinCountOf(pid) = 0 /\ DirtyOf(pid)
  /\ \E pid \in PageIds : ~Resident(pid) /\ pid < next_page_id

\* C17: a successful UnpinPage(pid, is_dirty) leaves the frame's dirty flag at
\* (the flag it had) OR is_dirty; UnpinPage(pid, false) never clears a flag
\* that is set.
C17_UnpinOrsDirty ==
  [][\A pid \in PageIds, is_dirty \in BOOLEAN, ret \in BOOLEAN :
       (UnpinStep(pid, is_dirty, ret) /\ Resident(pid) /\ PinCountOf(pid) > 0)
         => /\ ret = TRUE
            /\ pages'[page_table[pid]].is_dirty = (DirtyOf(pid) \/ is_dirty)]_vars

\* a page that a successful unpin has left dirty while another pin remains:
\* the state in which UnpinPage(pid, false) must keep the flag
C17_Witness ==
  \E pid \in PageIds : Resident(pid) /\ PinCountOf(pid) > 0 /\ DirtyOf(pid)

\* every frame holds a page whose pin count is positive
AllPinned ==
  \A f \in Frames :
    /\ pages[f].page_id \in DOMAIN page_table
    /\ page_table[pages[f].page_id] = f
    /\ pages[f].pin_count > 0

\* a step of FetchPage(pid) that returns a page (ret) or nullptr, in either
\* version
FetchStep(pid, ret) == FetchPage1(pid, ret) \/ FetchPage2(pid, ret)

\* C18: when every frame holds a pinned page, NewPage returns nullptr and
\* changes nothing: no page id is allocated, and the page table, the free
\* list, the pin counts, the dirty flags and the replacer stay as they were;
\* the same holds for FetchPage of a page that is not resident.
C18_NoFrameNoEffect ==
  [][\A ret \in BOOLEAN :
       (AllPinned /\ (NewPage(ret) \/ \E pid \in PageIds : ~Resident(pid) /\ FetchStep(pid, ret)))
         => /\ ret = FALSE
            /\ UNCHANGED <<next_page_id, page_table, free_list, pages, replacer, disk>>]_vars

\* a state in which both calls are refused: every frame pinned, one page
\* pinned twice, and a page that has lost its frame
C18_Witness ==
  /\ AllPinned
  /\ replacer.current_timestamp < MaxTime
  /\ \E pid \in PageIds : Resident(pid) /\ PinCountOf(pid) > 1
  /\ \E pid \in 0 .. (next_page_id - 1) : ~Resident(pid) /\ holders[pid] < MaxPin

\* the frames on the free list
InFreeList(fl) == {fl[i] : i \in 1 .. Len(fl)}

\* C19: DeletePage(pid) returns true and changes nothing when pid is not
\* resident; returns false and changes nothing when pid is resident with a
\* positive pin count; otherwise it returns true, and afterwards pid is not in
\* the page table, its frame is on the free list, the replacer does not track
\* the frame, and DeallocatePage(pid) has been called exactly once.
C19_DeletePage ==
  [][\A pid \in PageIds, ret \in BOOLEAN, freed \in Freed :
       DeletePage(pid, ret, freed) =>
         IF ~Resident(pid)
         THEN /\ ret = TRUE
              /\ freed = << >>
              /\ UNCHANGED <<pages, page_table, free_list, replacer, next_page_id, disk>>
         ELSE IF PinCountOf(pid) > 0
         THEN /\ ret = FALSE
              /\ freed = << >>
              /\ UNCHANGED <<pages, page_table, free_list, replacer, next_page_id, disk>>
         ELSE /\ ret = TRUE
              /\ fault' = "none"
              /\ pid \notin DOMAIN page_table'
              /\ page_table[pid] \in InFreeList(free_list')
              /\ page_table[pid] \notin DOMAIN replacer'.node_store
              /\ freed = <<pid>>]_vars

\* a state a successful DeletePage leaves: the page gone from the page table,
\* its frame, which still bears the page's id, on the free list and untracked
C19_Witness ==
  \E pid \in PageIds :
    /\ ~Resident(pid)
    /\ \E f \in InFreeList(free_list) :
         pages[f].page_id = pid /\ f \notin DOMAIN replacer.node_store

\* a step of FlushPage(pid) or of FlushAllPages, in either version
FlushStep ==
  \/ \E pid \in PageIds, ret \in BOOLEAN : FlushPage1(pid, ret) \/ FlushPage2(pid, ret)
  \/ FlushAllPages1
  \/ FlushAllPages2

\* what a flush may change: the dirty flag of frames, which it clears (and
\* the disk); the replacer, the pin counts, the page table and the free list
\* stay as they were
OnlyFlushed ==
  /\ UNCHANGED <<replacer, page_table, free_list, next_page_id>>
  /\ \A f \in Frames :
       \/ pages'[f] = pages[f]
       \/ pages'[f] = [pages[f] EXCEPT !.is_dirty = FALSE]

\* C20: FlushPage and FlushAllPages are not replacer events: they leave the
\* replacer (histories, list order, evictable flags, size), the pin counts, the
\* page table and the free list as they were; they change only the dirty flag
\* of frames they flush, which they clear, and the disk.
C20_FlushNotReplacerEvent == [][FlushStep => OnlyFlushed]_vars

\* the same, for the first version alone
C20_FirstVersion == [][(variant = "A" /\ FlushStep) => OnlyFlushed]_vars

\* ---- claims about the replacer's bookkeeping (SpecR) -------------------------
\* C21: after any sequence of RecordAccess, SetEvictable, Evict and Remove
\* calls (SetEvictable on a frame never accessed, or evicted, or removed,
\* included), Size() is the number of frames that are in fifo_ or lru_ and
\* have their evictable flag set.
C21_SizeCountsEvictable ==
  replacer.curr_size = Cardinality(EvictableTracked(replacer))

\* ---- claims about TrieStore readers (SpecS) ---------------------------------
\* the next step of a Get call of thread t
GetStep(t) ==
  callers[t].op = "get" /\ (LockRoot(t) \/ CopyRoot(t) \/ Lookup(t))

\* C22: a TrieStore reader waits for a writer only during the root swap: Get
\* never holds write_lock_; no thread holds root_lock_ while it computes the
\* new trie; and a Get that cannot take its next step waits for a thread that
\* is between root_lock_.lock() and root_lock_.unlock(), so a Get issued while
\* a writer computes goes on without waiting for that writer to finish.
C22_ReadersDoNotWait ==
  /\ write_lock # 0 => callers[write_lock].op # "get"
  /\ \A w \in Threads : callers[w].pc = "compute" => root_lock # w
  /\ \A t \in Threads :
       (callers[t].op = "get" /\ ~ENABLED GetStep(t))
         => /\ root_lock \notin {0, t}
            /\ callers[root_lock].pc \in {"copy", "install"}

\* a Get holds root_lock_, which it has taken while a writer that holds
\* write_lock_ is computing its new trie
C22_Witness ==
  \E w, t \in Threads :
    /\ callers[w].pc = "compute"
    /\ write_lock = w
    /\ callers[t].op = "get"
    /\ callers[t].pc = "copy"
    /\ root_lock = t

\* ---- claims about the guard factories and the guards' mutexes (SpecG) -------
\* a step of one of the four factories called by thread t for the guard
\* object g, on the page pid where it takes one
FactoryStep(t, pid, g) ==
  \/ NewPageGuarded(t, g)
  \/ FetchPageBasic(t, pid, g)
  \/ FetchPageRead(t, pid, g)
  \/ FetchPageWrite(t, pid, g)

\* NewPage and FetchPage(pid) find no frame: every frame holds a pinned page
\* and pid is not one of them
NoCleanFrame(pid) == AllPinned /\ ~Resident(pid)

\* C23: when no clean frame can be obtained, FetchPageBasic, FetchPageRead,
\* FetchPageWrite and NewPageGuarded fail recoverably: the call returns a guard
\* that holds no page, acquires no latch and does not dereference the missing
\* frame; a Drop of such a guard makes no UnpinPage call.
C23_FactoriesFailRecoverably ==
  [][/\ \A t \in Threads, pid \in PageIds, g \in GuardIds :
          (NoCleanFrame(pid) /\ FactoryStep(t, pid, g))
            => /\ pc'[t] = Idle
               /\ Live(g)'
               /\ guards'[g].page = NoFrame
               /\ UNCHANGED latch
     /\ \A t \in Threads, g \in GuardIds :
          (guards[g].page = NoFrame /\ (Drop(t, g) \/ Destroy(t, g)))
            => UNCHANGED <<unpinCalls, pages, replacer>>]_vars

\* the same, for FetchPageBasic and NewPageGuarded alone
C23_BasicFactories ==
  [][\A t \in Threads, pid \in PageIds, g \in GuardIds :
       (NoCleanFrame(pid) /\ (NewPageGuarded(t, g) \/ FetchPageBasic(t, pid, g)))
         => /\ pc'[t] = Idle
            /\ Live(g)'
            /\ guards'[g].page = NoFrame
            /\ UNCHANGED latch]_vars

\* ---- claims about the shape of the trie (SpecT) -----------------------------
\* the keys for which the trie the last call was made on returned a value
KeysBefore == {k \in Keys : lastTrie.before[k] # NoValue}

\* C24: in every trie produced from the empty trie by Put and Remove calls, no
\* reachable node is both without a value and without children; a Remove of
\* the only key of a trie (the empty key included) returns a trie whose root_
\* is null.
C24_NoEmptyNode ==
  /\ \A i \in 1 .. Len(tries) : \A n \in ReachFrom(heap, tries[i]) :
       heap[n].is_value \/ DOMAIN heap[n].children # {}
  /\ (lastTrie.op = "remove" /\ KeysBefore = {lastTrie.key}) => NewTrie = nullptr

\* a Remove of the only key of a trie, a key of full length, so that the
\* whole chain of nodes above the value is given up
C24_Witness ==
  /\ lastTrie.op = "remove"
  /\ KeysBefore = {lastTrie.key}
  /\ Len(lastTrie.key) = MaxKeyLen
  /\ tries[lastTrie.base] # nullptr
  /\ NewTrie = nullptr

\* ---- claims about the replacer's lists (SpecR) -------------------------------
\* the frames with a node that has a recorded access
Accessed(r) == {f \in DOMAIN r.node_store : r.node_store[f].history # << >>}

\* the list holds no frame twice
NoRepeat(list) == \A i, j \in 1 .. Len(list) : list[i] = list[j] => i = j

\* the list is in ascending order of stamp
OrderedBy(list, stamp(_)) ==
  \A i, j \in 1 .. Len(list) : i < j => stamp(list[i]) < stamp(list[j])

ListsPartition(r) ==
  LET hist(f) == NodeAt(r, f).history
      inFifo == {r.fifo[i] : i \in 1 .. Len(r.fifo)}
      inLru == {r.lru[i] : i \in 1 .. Len(r.lru)}
      first(f) == hist(f)[1]
      last(f) == hist(f)[Len(hist(f))]
  IN /\ NoRepeat(r.fifo)
     /\ NoRepeat(r.lru)
     /\ inFifo \cap inLru = {}
     /\ inFifo = {f \in Accessed(r) : Len(hist(f)) < K}
     /\ inLru = {f \in Accessed(r) : Len(hist(f)) >= K}
     /\ OrderedBy(r.fifo, first)
     /\ OrderedBy(r.lru, last)

\* C25: in every reachable replacer state each tracked frame is exactly once
\* in exactly one of the two lists: in fifo_ (in order of first access) if it
\* has fewer than K recorded accesses, in lru_ (in order of most recent
\* access, least recent first) if it has K or more; no frame that was evicted
\* or removed remains in either list.
C25_ListsPartitionFrames == ListsPartition(replacer)

\* the same, as long as SetEvictable has made no node for a frame that is in
\* neither list
C25_WithoutStrayNodes ==
  [][(DOMAIN replacer.node_store = Tracked(replacer)
      /\ DOMAIN replacer'.node_store = Tracked(replacer')
      /\ ListsPartition(replacer)) => ListsPartition(replacer')]_vars

\* C26: every RecordAccess call returns: in no reachable state has a call
\* blocked on latch_ while the calling thread already holds it, a call for
\* an unknown frame with curr_size_ equal to replacer_size_ included
C26_RecordAccessReturns == fault # "hung"

\* C27: every WritePageGuard move construction, move assignment and Drop
\* terminates: no thread waits for a guard's latch_ that will never be
\* released, self move assignment (g = std::move(g)) included
C27_GuardMovesTerminate == \A t \in Threads : pc[t].op # "mutex"

\* the frame DeletePage passes to the replacer's Remove for the page pid
RemovedFrame(pid) ==
  IF Resident(pid) /\ pages[page_table[pid]].pin_count = 0 THEN page_table[pid] ELSE NoFrame

\* C28: no public operation of the pool makes a replacer assertion fail:
\* a resident page with pin count 0, whose frame DeletePage would pass to
\* Remove, has its frame tracked as evictable, and the frames the pool
\* passes to SetEvictable are below pool_size
C28_NoReplacerAssertion ==
  /\ fault # "assert"
  /\ \A pid \in PageIds : RemovedFrame(pid) # NoFrame
       => /\ RemovedFrame(pid) \in DOMAIN replacer.node_store
          /\ replacer.node_store[RemovedFrame(pid)].is_evictable
  /\ DOMAIN replacer.node_store \subseteq Frames
  /\ DOMAIN page_table \subseteq PageIds
  /\ \A pid \in DOMAIN page_table : page_table[pid] \in Frames

\* DeletePage has removed the frame of a page from the replacer and freed it,
\* and another resident page with pin count 0 has its frame tracked as
\* evictable, ready for the next DeletePage
C28_Witness ==
  /\ fault = "none"
  /\ \E p, q \in PageIds :
       /\ RemovedFrame(p) # NoFrame
       /\ replacer.node_store[RemovedFrame(p)].is_evictable
       /\ ~Resident(q)
       /\ \E f \in InFreeList(free_list) : pages[f].page_id = q

====
